---- MODULE Spec2Model ----
(***************************************************************************)
(* lexington.regex: regular expressions matched by Brzozowski derivatives. *)
(*                                                                         *)
(* Values are tagged tuples, the tag first:                                *)
(*   <<"Null">> <<"Epsilon">> <<"Any">> <<"Symbol", s>>                    *)
(*   <<"Union", options>> <<"Concat", prefix, suffix>>                     *)
(*   <<"Star", regex>> <<"Repeat", regex, count>>         Regex instances  *)
(*   <<"Str", seq>>     a text or byte string (len(seq) symbols)           *)
(*   <<"Chr", s>>       a lone byte (what iterating a bytestring yields on *)
(*                      Python 3: an int)                                  *)
(*   <<"Obj">>          any other Python object (e.g. Ellipsis)            *)
(*   <<"Err", kind>>    the call raised instead of returning               *)
(*   <<"Bool", b>>      a truth value returned by match                    *)
(*   <<"None">>         no value                                           *)
(* Regex instances are immutable and compared by __eq__/__hash__ (same     *)
(* class and equal hash of the fields, a frozenset for Union), so a value  *)
(* is its structure; Null, Epsilon and Any are the only instances of their *)
(* classes, so `is Null` is equality with Null.  Symbols are numbered: a   *)
(* code point and a byte are never equal.                                  *)
(***************************************************************************)
EXTENDS Integers, Sequences, FiniteSets

\* ---------------------------------------------------------------- bounds
MaxSize  == 5      \* largest regex (node count) the client keeps to work on
MaxLen   == 2      \* longest subject handed to match
MaxCount == 2      \* largest count handed to repeat
MaxJoin  == 3      \* longest sequence handed to join
MaxArgs  == 2      \* most options handed to union in one call
MaxStart == 4      \* largest regex (node count) whose derivatives are all followed
MaxDerive == 1     \* derive calls allowed beyond the span of a regex (see Span)

\* ---------------------------------------------------------------- symbols
TextSyms == {1, 2}          \* code points, alphabet Text
ByteSyms == {3}             \* bytes, alphabet Bytestring
Syms     == TextSyms \cup ByteSyms

Null    == <<"Null">>
Epsilon == <<"Epsilon">>
Any     == <<"Any">>
Obj     == <<"Obj">>
Nothing == <<"None">>      \* None: no literal, no regex held, no call recorded

SymbolRegex(sym) == <<"Symbol", sym>>
StarRegex(regex) == <<"Star", regex>>

Err(kind) == <<"Err", kind>>
Bool(b)   == <<"Bool", b>>

RegexTags == {"Null", "Epsilon", "Any", "Symbol", "Union", "Concat", "Star", "Repeat"}

IsErr(v)   == v[1] = "Err"
IsRegex(v) == v[1] \in RegexTags

\* isinstance(e, Strings) / isinstance(e, Characters) for a non-Regex e
IsStrings(e)    == e[1] = "Str"
IsCharacters(e) == e[1] = "Chr"

\* lexington.strings.string_type, applied to a symbol
string_type(sym) == IF sym \in TextSyms THEN "Text" ELSE "Bytestring"

\* ---------------------------------------------------------------- helpers
RECURSIVE SetToSeq(_)
SetToSeq(S) ==
    IF S = {} THEN <<>>
    ELSE LET e == CHOOSE e \in S : TRUE IN <<e>> \o SetToSeq(S \ {e})

\* the first raised error among a sequence of outcomes (argument evaluation
\* is left to right, and an exception leaves through every caller)
FirstErr(vs) ==
    LET I == {i \in DOMAIN vs : IsErr(vs[i])}
    IN  vs[CHOOSE i \in I : \A j \in I : i <= j]

HasErr(vs) == \E i \in DOMAIN vs : IsErr(vs[i])

\* ---------------------------------------------------------------- alphabet
RECURSIVE alphabet(_)
alphabet(r) ==
    CASE r[1] = "Symbol" -> string_type(r[2])
      [] r[1] = "Union"  ->
            LET as == {alphabet(o) : o \in r[2]} \ {"None"}
            IN  IF as = {} THEN "None" ELSE CHOOSE a \in as : TRUE
      [] r[1] = "Concat" ->
            IF alphabet(r[3]) = "None" THEN alphabet(r[2]) ELSE alphabet(r[3])
      [] r[1] = "Star"   -> alphabet(r[2])
      [] r[1] = "Repeat" -> alphabet(r[2])
      [] OTHER           -> "None"

\* UnionRegex.__init__: the options' concrete alphabets must all be the same
UnionRegex(options) ==
    IF Cardinality({alphabet(o) : o \in options} \ {"None"}) > 1
    THEN Err("AlphabetMismatch")
    ELSE <<"Union", options>>

\* ConcatRegex.__init__
ConcatRegex(prefix, suffix) ==
    LET alpha_pre == alphabet(prefix)
        alpha_suf == alphabet(suffix)
    IN  IF (alpha_pre # "None" \/ alpha_suf # "None") /\ alpha_pre # alpha_suf
        THEN Err("AlphabetMismatch")
        ELSE <<"Concat", prefix, suffix>>

\* RepeatRegex.__init__ (for count < 2 the raise statement itself fails while
\* it formats its message; either way the constructor raises)
RepeatRegex(regex, count) ==
    IF count < 2 THEN Err("RepeatCount") ELSE <<"Repeat", regex, count>>

\* ---------------------------------------------------------------- constructors
RECURSIVE regexify(_), concat(_, _), join(_), joinLoop(_, _, _)

\* regexify that joins the symbols of a string last to first
regexify_reversed(e) ==
    IF IsErr(e) THEN e
    ELSE IF IsRegex(e) THEN e
    ELSE IF IsStrings(e)
         THEN IF Len(e[2]) = 0 THEN Epsilon
              ELSE join([i \in 1..Len(e[2]) |-> SymbolRegex(e[2][Len(e[2]) + 1 - i])])
    ELSE IF IsCharacters(e) THEN SymbolRegex(e[2])
    ELSE Err("UnsupportedType")

regexify(e) ==
    IF IsErr(e) THEN e
    ELSE IF IsRegex(e) THEN e
    ELSE IF IsStrings(e)
         THEN IF Len(e[2]) = 0 THEN Epsilon
              ELSE join([i \in 1..Len(e[2]) |-> SymbolRegex(e[2][i])])
    ELSE IF IsCharacters(e) THEN SymbolRegex(e[2])
    ELSE Err("UnsupportedType")

\* concat without the branch that drops an Epsilon suffix
concat_keepEpsilonSuffix(prefix0, suffix0) ==
    IF IsErr(prefix0) THEN prefix0
    ELSE IF IsErr(suffix0) THEN suffix0
    ELSE LET prefix == regexify(prefix0) IN
         IF IsErr(prefix) THEN prefix
         ELSE LET suffix == regexify(suffix0) IN
              IF IsErr(suffix) THEN suffix
              ELSE IF prefix = Null \/ suffix = Null THEN Null
              ELSE IF prefix = Epsilon THEN suffix
              ELSE ConcatRegex(prefix, suffix)

concat(prefix0, suffix0) ==
    IF IsErr(prefix0) THEN prefix0
    ELSE IF IsErr(suffix0) THEN suffix0
    ELSE LET prefix == regexify(prefix0) IN
         IF IsErr(prefix) THEN prefix
         ELSE LET suffix == regexify(suffix0) IN
              IF IsErr(suffix) THEN suffix
              ELSE IF prefix = Null \/ suffix = Null THEN Null
              ELSE IF prefix = Epsilon THEN suffix
              ELSE IF suffix = Epsilon THEN prefix
              ELSE ConcatRegex(prefix, suffix)

\* the loop of join: final is the partial result, i the index of the next
\* element to the left (regexes[-2::-1] walks i = n-1 .. 1)
joinLoop(regexes, i, final) ==
    IF i = 0 THEN final
    ELSE LET f == concat(regexes[i], final)
         IN  IF IsErr(f) THEN f
             ELSE IF f = Null THEN Null
             ELSE joinLoop(regexes, i - 1, f)

\* join with the slice of the fold off by one ([-3::-1]): the next-to-last
\* element is never concatenated
join_skip(regexes) ==
    LET n == Len(regexes)
    IN  IF n = 2 THEN concat(regexes[1], regexes[2])
        ELSE IF n = 1 THEN regexify(regexes[1])
        ELSE IF n = 0 THEN Epsilon
        ELSE joinLoop(regexes, n - 2, regexes[n])

join(regexes) ==
    LET n == Len(regexes)
    IN  IF n = 2 THEN concat(regexes[1], regexes[2])
        ELSE IF n = 1 THEN regexify(regexes[1])
        ELSE IF n = 0 THEN Epsilon
        ELSE joinLoop(regexes, n - 1, regexes[n])

\* unionMembers without the test that leaves Null out of the set
unionMembers_keepNull(regex) ==
    IF regex[1] = "Union" THEN regex[2] ELSE {regexify(regex)}

\* unionMembers that adds a Union argument as one member instead of its options
unionMembers_noFlatten(regex) ==
    LET r == regexify(regex) IN IF r = Null THEN {} ELSE {r}

\* the members one argument of union contributes to the set s
unionMembers(regex) ==
    IF regex[1] = "Union" THEN regex[2]
    ELSE LET r == regexify(regex) IN IF r = Null THEN {} ELSE {r}

union(options) ==
    LET conv == [i \in DOMAIN options |->
                    IF IsErr(options[i]) THEN options[i]
                    ELSE IF options[i][1] = "Union" THEN options[i]
                    ELSE regexify(options[i])]
    IN  IF HasErr(conv) THEN FirstErr(conv)
        ELSE LET s == UNION {unionMembers(conv[i]) : i \in DOMAIN conv}
             IN  IF s = {} THEN Null
                 ELSE IF Cardinality(s) = 1 THEN CHOOSE r \in s : TRUE
                 ELSE UnionRegex(s)

\* star without the test for an argument that is already a Star
star_rewrap(regex) ==
    IF regex = Epsilon THEN Epsilon
    ELSE IF regex = Null THEN Epsilon
    ELSE LET r == regexify(regex) IN IF IsErr(r) THEN r ELSE StarRegex(r)

star(regex) ==
    IF regex = Epsilon THEN Epsilon
    ELSE IF regex = Null THEN Epsilon
    ELSE IF regex[1] = "Star" THEN regex
    ELSE LET r == regexify(regex) IN IF IsErr(r) THEN r ELSE StarRegex(r)

\* repeat without the branch for count 1
repeat_noOne(regex, count) ==
    IF count = 0 THEN Epsilon
    ELSE IF regex = Epsilon THEN Epsilon
    ELSE IF regex = Null THEN Null
    ELSE LET r == regexify(regex) IN IF IsErr(r) THEN r ELSE RepeatRegex(r, count)

\* repeat without the branch that returns Epsilon for an Epsilon regex
repeat_noEpsilon(regex, count) ==
    IF count = 0 THEN Epsilon
    ELSE IF count = 1 THEN regex
    ELSE IF regex = Null THEN Null
    ELSE LET r == regexify(regex) IN IF IsErr(r) THEN r ELSE RepeatRegex(r, count)

repeat(regex, count) ==
    IF count = 0 THEN Epsilon
    ELSE IF count = 1 THEN regex
    ELSE IF regex = Epsilon THEN Epsilon
    ELSE IF regex = Null THEN Null
    ELSE LET r == regexify(regex) IN IF IsErr(r) THEN r ELSE RepeatRegex(r, count)

\* ---------------------------------------------------------------- per-value operations
RECURSIVE accepts_empty_string(_)
accepts_empty_string(r) ==
    CASE r[1] = "Epsilon" -> TRUE
      [] r[1] = "Union"   -> \E o \in r[2] : accepts_empty_string(o)
      [] r[1] = "Concat"  -> accepts_empty_string(r[2]) /\ accepts_empty_string(r[3])
      [] r[1] = "Star"    -> TRUE
      [] OTHER            -> FALSE

RECURSIVE derive(_, _)

\* derive whose Repeat arm does not count down
derive_sameCount(r, sym) ==
    CASE r[1] = "Epsilon" -> Null
      [] r[1] = "Null"    -> r
      [] r[1] = "Symbol"  -> IF sym = r[2] THEN Epsilon ELSE Null
      [] r[1] = "Any"     -> Epsilon
      [] r[1] = "Union"   -> union(SetToSeq({derive(o, sym) : o \in r[2]}))
      [] r[1] = "Concat"  ->
            IF accepts_empty_string(r[2])
            THEN union(<<concat(derive(r[2], sym), r[3]), derive(r[3], sym)>>)
            ELSE concat(derive(r[2], sym), r[3])
      [] r[1] = "Star"    -> concat(derive(r[2], sym), r)
      [] r[1] = "Repeat"  -> concat(derive(r[2], sym), repeat(r[2], r[3]))

derive(r, sym) ==
    CASE r[1] = "Epsilon" -> Null
      [] r[1] = "Null"    -> r
      [] r[1] = "Symbol"  -> IF sym = r[2] THEN Epsilon ELSE Null
      [] r[1] = "Any"     -> Epsilon
      [] r[1] = "Union"   -> union(SetToSeq({derive(o, sym) : o \in r[2]}))
      [] r[1] = "Concat"  ->
            IF accepts_empty_string(r[2])
            THEN union(<<concat(derive(r[2], sym), r[3]), derive(r[3], sym)>>)
            ELSE concat(derive(r[2], sym), r[3])
      [] r[1] = "Star"    -> concat(derive(r[2], sym), r)
      [] r[1] = "Repeat"  -> concat(derive(r[2], sym), repeat(r[2], r[3] - 1))

\* match that rejects as soon as the running regex does not accept the empty
\* string, instead of when it is Null
RECURSIVE matchLoop_eager(_, _, _)
matchLoop_eager(re, subject, i) ==
    IF i > Len(subject) THEN Bool(accepts_empty_string(re))
    ELSE LET d == derive(re, subject[i])
         IN  IF IsErr(d) THEN d
             ELSE IF ~accepts_empty_string(d) THEN Bool(FALSE)
             ELSE matchLoop_eager(d, subject, i + 1)

\* Regex.match: subject[i..] is still to be read, re is the running regex
RECURSIVE matchLoop(_, _, _)
matchLoop(re, subject, i) ==
    IF i > Len(subject) THEN Bool(accepts_empty_string(re))
    ELSE LET d == derive(re, subject[i])
         IN  IF IsErr(d) THEN d
             ELSE IF d = Null THEN Bool(FALSE)
             ELSE matchLoop(d, subject, i + 1)

match(r, subject) == matchLoop(r, subject, 1)

\* the truth value of a literal in `if self.prefix.literal and ...`
Truthy(l) ==
    CASE l[1] = "Str" -> Len(l[2]) > 0
      [] l[1] = "Chr" -> l[2] # 0
      [] OTHER        -> FALSE

\* prefix.literal + suffix.literal: strings are concatenated, ints are added
Plus(l, m) ==
    CASE l[1] = "Str" /\ m[1] = "Str" -> <<"Str", l[2] \o m[2]>>
      [] l[1] = "Chr" /\ m[1] = "Chr" -> <<"Chr", l[2] + m[2]>>
      [] OTHER                        -> Err("TypeError")

\* Regex.literal and its overrides.  A SymbolRegex hands back its symbol: a
\* string of length one, except for a byte on Python 3 (PYTHON_3000), which
\* is an int.
RECURSIVE literal(_, _)
literal(r, PYTHON_3000) ==
    CASE r[1] = "Symbol" ->
            IF r[2] \in ByteSyms /\ PYTHON_3000
            THEN <<"Chr", r[2]>> ELSE <<"Str", <<r[2]>>>>
      [] r[1] = "Concat" ->
            LET p == literal(r[2], PYTHON_3000)
                s == literal(r[3], PYTHON_3000)
            IN  IF Truthy(p) /\ Truthy(s) THEN Plus(p, s) ELSE Nothing
      [] OTHER -> Nothing

\* __hash__: the hash of the class, or of a tuple of the class and the
\* fields (options is a frozenset, hashed without regard to order).  Hash
\* values are kept symbolic: two hashes are equal when they are hashes of
\* equal things.
RECURSIVE hash(_)
hash(r) ==
    CASE r[1] = "Symbol" -> <<"Symbol", r[2]>>
      [] r[1] = "Union"  -> <<"Union", {hash(o) : o \in r[2]}>>
      [] r[1] = "Concat" -> <<"Concat", hash(r[2]), hash(r[3])>>
      [] r[1] = "Star"   -> <<"Star", hash(r[2])>>
      [] r[1] = "Repeat" -> <<"Repeat", hash(r[2]), r[3]>>
      [] OTHER           -> <<r[1]>>

\* Regex.__eq__
eq(self, other) == self[1] = other[1] /\ hash(self) = hash(other)

\* ---------------------------------------------------------------- the session
\* A client holds at most one regex, x, and calls one operation at a time.
\* op, args and out record the call being looked at: its name, its arguments
\* and what it returned or raised.  While the client holds nothing its calls
\* are made on fresh values; once it holds a regex its calls work on x,
\* together with fresh values.  After a call the client may keep the regex
\* the call returned as its new x.
VARIABLES x, op, args, out
vars == <<x, op, args, out>>

Arg(v)  == <<"Arg", v>>    \* a symbol or a count among the recorded arguments

RECURSIVE Size(_), SumSize(_)
SumSize(S) ==
    IF S = {} THEN 0
    ELSE LET e == CHOOSE e \in S : TRUE IN Size(e) + SumSize(S \ {e})
Size(r) ==
    CASE r[1] = "Union"  -> 1 + SumSize(r[2])
      [] r[1] = "Concat" -> 1 + Size(r[2]) + Size(r[3])
      [] r[1] = "Star"   -> 1 + Size(r[2])
      [] r[1] = "Repeat" -> 1 + Size(r[2])
      [] OTHER           -> 1

\* fresh values for the calls of a client that holds nothing: regexes ...
Atoms == {Null, Epsilon, Any} \cup {SymbolRegex(s) : s \in Syms}
\* ... and values that are not Regex instances
Raws  == {<<"Str", <<>>>>, <<"Str", <<1, 2>>>>, <<"Chr", 3>>, Obj}
\* fresh values that a call on x combines with x
Fresh == {Null, Epsilon, Any, SymbolRegex(1), SymbolRegex(2)}
\* the elements of the sequences handed to join
JoinElems == {Null, Any, SymbolRegex(1), SymbolRegex(3), Obj}

First == x = Nothing
Idle  == op = "none"

\* the values a call works on: any fresh value, or x
Subject == IF First THEN Atoms \cup Raws ELSE {x}
\* the values its other arguments are taken from
Operands == IF First THEN Atoms \cup Raws ELSE {x} \cup Fresh
\* a regex built beforehand by repeat with a count above MaxCount
Built == {<<"Repeat", SymbolRegex(1), MaxCount + 1>>}
\* the regexes derive and match are called on
Receivers == IF First THEN Atoms \cup Built ELSE {x}

SeqsUpTo(S, n) == UNION {[1..k -> S] : k \in 0..n}
\* argument lists of at most n values, the first of them from Subject
ArgLists(n) ==
    LET rest == SeqsUpTo(Operands, n - 1)
    IN  {<<>>} \cup {<<e>> \o t : e \in Subject, t \in rest}

Subjects == SeqsUpTo(Syms, MaxLen)
Counts == -1..MaxCount

\* the call name(as) returned or raised res
Return(name, as, res) ==
    /\ op' = name
    /\ args' = as
    /\ out' = res
    /\ UNCHANGED x

Init ==
    /\ x = Nothing
    /\ op = "none"
    /\ args = <<>>
    /\ out = Nothing

Regexify ==
    /\ Idle
    /\ \E e \in Subject : Return("regexify", <<e>>, regexify(e))

Union ==
    /\ Idle
    /\ \E os \in ArgLists(MaxArgs) : Return("union", os, union(os))

Concat ==
    /\ Idle
    /\ \E p, s \in Operands :
          /\ p \in Subject \/ s \in Subject
          /\ Return("concat", <<p, s>>, concat(p, s))

Join ==
    /\ Idle /\ First
    /\ \E rs \in SeqsUpTo(JoinElems, MaxJoin) : Return("join", rs, join(rs))

Star ==
    /\ Idle
    /\ \E e \in Subject : Return("star", <<e>>, star(e))

Repeat ==
    /\ Idle
    /\ \E e \in Subject, n \in Counts :
          Return("repeat", <<e, Arg(n)>>, repeat(e, n))

Derive ==
    /\ Idle
    /\ \E r \in Receivers, sym \in Syms :
          Return("derive", <<r, Arg(sym)>>, derive(r, sym))

Match ==
    /\ Idle
    /\ \E r \in Receivers, w \in Subjects :
          Return("match", <<r, <<"Str", w>>>>, match(r, w))

\* reading r.literal, on either Python
Literal ==
    /\ Idle
    /\ \E r \in Receivers, PYTHON_3000 \in BOOLEAN :
          Return("literal", <<r, Arg(PYTHON_3000)>>, literal(r, PYTHON_3000))

\* the client keeps the regex the call returned: one that is not a fresh
\* regex already (a call on it is a call on a fresh value) and that is small
\* enough to be worked on further
Keep ==
    /\ ~Idle
    /\ IsRegex(out) /\ out \notin Atoms /\ Size(out) <= MaxSize
    /\ x' = out
    /\ op' = "none"
    /\ args' = <<>>
    /\ out' = Nothing

Next ==
    \/ Regexify
    \/ Union
    \/ Concat
    \/ Join
    \/ Star
    \/ Repeat
    \/ Derive
    \/ Match
    \/ Literal
    \/ Keep

Spec == Init /\ [][Next]_vars

\* ---------------------------------------------------------------- vocabulary of the properties
\* regexify accepts v
Convertible(v) == ~IsErr(regexify(v))

\* the concrete alphabets among the operands of the last call
ConcreteAlphabets == {alphabet(regexify(args[i])) : i \in DOMAIN args} \ {"None"}

\* the regular language a regex denotes: w is one of its strings
RECURSIVE InLang(_, _), InPow(_, _, _)
InLang(r, w) ==
    CASE r[1] = "Null"    -> FALSE
      [] r[1] = "Epsilon" -> w = <<>>
      [] r[1] = "Symbol"  -> w = <<r[2]>>
      [] r[1] = "Any"     -> Len(w) = 1
      [] r[1] = "Union"   -> \E o \in r[2] : InLang(o, w)
      [] r[1] = "Concat"  -> \E i \in 0..Len(w) :
                                /\ InLang(r[2], SubSeq(w, 1, i))
                                /\ InLang(r[3], SubSeq(w, i + 1, Len(w)))
      [] r[1] = "Star"    -> \/ w = <<>>
                             \/ \E i \in 1..Len(w) :
                                   /\ InLang(r[2], SubSeq(w, 1, i))
                                   /\ InLang(r, SubSeq(w, i + 1, Len(w)))
      [] r[1] = "Repeat"  -> InPow(r[2], r[3], w)
InPow(r, n, w) ==
    IF n = 0 THEN w = <<>>
    ELSE \E i \in 0..Len(w) :
            /\ InLang(r, SubSeq(w, 1, i))
            /\ InPow(r, n - 1, SubSeq(w, i + 1, Len(w)))

\* the canonical form the constructors are to keep
RECURSIVE Canonical(_)
Canonical(r) ==
    CASE r[1] = "Union"  -> /\ Cardinality(r[2]) >= 2
                            /\ \A o \in r[2] :
                                  o[1] # "Union" /\ o # Null /\ Canonical(o)
      [] r[1] = "Concat" -> /\ r[2] \notin {Epsilon, Null}
                            /\ r[3] \notin {Epsilon, Null}
                            /\ Canonical(r[2]) /\ Canonical(r[3])
      [] r[1] = "Star"   -> r[2][1] # "Star" /\ Canonical(r[2])
      [] r[1] = "Repeat" -> r[3] >= 2 /\ Canonical(r[2])
      [] OTHER           -> TRUE

\* the right fold of concat that never stops early
RECURSIVE PlainFold(_)
PlainFold(seq) ==
    IF Len(seq) = 0 THEN Epsilon
    ELSE IF Len(seq) = 1 THEN regexify(seq[1])
    ELSE concat(seq[1], PlainFold(Tail(seq)))

\* derive applied for every symbol of subject from position i on, no early exit
RECURSIVE DeriveAll(_, _, _)
DeriveAll(re, subject, i) ==
    IF i > Len(subject) THEN re
    ELSE LET d == derive(re, subject[i])
         IN  IF IsErr(d) THEN d ELSE DeriveAll(d, subject, i + 1)

\* ---------------------------------------------------------------- C1
\* C1: concat and union raise the alphabet-mismatch error exactly when two
\* operands have concrete alphabets that differ; an operand with alphabet
\* None is compatible with any domain and the result then reports the
\* concrete alphabet.
C1_AlphabetDiscipline ==
    (op \in {"concat", "union"} /\ \A i \in DOMAIN args : Convertible(args[i]))
    => /\ (out = Err("AlphabetMismatch")) <=> (Cardinality(ConcreteAlphabets) > 1)
       /\ (Cardinality(ConcreteAlphabets) = 1 /\ IsRegex(out) /\ out[1] \in {"Concat", "Union"})
              => alphabet(out) \in ConcreteAlphabets

\* ---------------------------------------------------------------- C2
\* C2: derive and match are total: on a regex the constructors built they
\* return a result and never raise.
C2_DeriveMatchTotal ==
    op \in {"derive", "match"} => ~IsErr(out)

\* ---------------------------------------------------------------- C3
\* C3: match(w) is True exactly when w belongs to the language the regex
\* denotes.
C3_MatchIsMembership ==
    op = "match" => out = Bool(InLang(args[1], args[2][2]))

\* ---------------------------------------------------------------- C4
\* C4: R.derive(a) denotes the left quotient of R by a: w is in its language
\* exactly when a followed by w is in the language of R.
C4_DeriveIsQuotient ==
    op = "derive" =>
        \A w \in Subjects :
            (IsRegex(out) /\ InLang(out, w)) <=> InLang(args[1], <<args[2][2]>> \o w)

\* ---------------------------------------------------------------- C5
\* C5: every regex a constructor or derive returns is in canonical form, and
\* so is every regex the client holds or hands to a call.
C5_CanonicalForm ==
    /\ IsRegex(out) => Canonical(out)
    /\ IsRegex(x) => Canonical(x)
    /\ \A i \in DOMAIN args : IsRegex(args[i]) => Canonical(args[i])

\* a derivative that is a Union or a Concat, or star called on a Star
C5_Witness ==
    \/ op = "derive" /\ out[1] \in {"Union", "Concat"}
    \/ op = "star" /\ args[1][1] = "Star" /\ out = args[1]

\* ---------------------------------------------------------------- C6
\* C6 as stated: whatever regex and integer count repeat() is given, the
\* RepeatRegex constructor is never reached with count < 2, so the
\* invalid-repeat-count error never leaves repeat().
C6_RepeatNeverRaises ==
    op = "repeat" => out # Err("RepeatCount")

\* C6 amended: the same for every count >= 0; with a negative count repeat()
\* hands the count to RepeatRegex, which raises, unless the regex is Epsilon
\* or Null (returned as they are) or regexify rejects it first.
C6_RepeatNonNegative ==
    op = "repeat" =>
        LET regex == args[1]
            count == args[2][2]
        IN  /\ count >= 0 => out # Err("RepeatCount")
            /\ count < 0 =>
                  out = IF regex \in {Epsilon, Null} THEN regex
                        ELSE IF ~Convertible(regex) THEN Err("UnsupportedType")
                        ELSE Err("RepeatCount")

\* repeat() built a Repeat node, or returned its argument for count 1
C6_Witness ==
    /\ op = "repeat"
    /\ \/ args[2][2] >= 2 /\ out[1] = "Repeat"
       \/ args[2][2] = 1 /\ out = args[1] /\ out[1] = "Star"

\* ---------------------------------------------------------------- C7
\* C7 as stated: for every input sequence join gives the outcome (value or
\* error) of the plain right fold of concat that does not stop at Null.
C7_JoinIsPlainFold ==
    op = "join" => out = PlainFold(args)

\* C7 amended: join gives the outcome of the plain fold whenever regexify
\* accepts every element; otherwise it gives that outcome or, where a partial
\* result to the right of the rejected element is Null, returns Null while
\* the plain fold raises the unsupported-type error.
C7_JoinIsPlainFoldOnConvertible ==
    op = "join" =>
        /\ (\A i \in DOMAIN args : Convertible(args[i])) => out = PlainFold(args)
        /\ \/ out = PlainFold(args)
           \/ /\ out = Null
              /\ PlainFold(args) = Err("UnsupportedType")
              /\ \E i, j \in DOMAIN args :
                    i < j /\ ~Convertible(args[i]) /\ args[j] = Null

\* join of three or more convertible elements left its loop early at a Null
C7_Witness ==
    /\ op = "join"
    /\ Len(args) >= 3
    /\ \A i \in DOMAIN args : Convertible(args[i])
    /\ \E j \in 2..Len(args) : args[j] = Null
    /\ out = Null

\* ---------------------------------------------------------------- C8
\* C8: join of a sequence that holds Null at any position is Null, and join
\* of the empty sequence is Epsilon.
C8_JoinNullIsNull ==
    (op = "join" /\ \A i \in DOMAIN args : Convertible(args[i]))
    => /\ Len(args) = 0 => out = Epsilon
       /\ (\E i \in DOMAIN args : args[i] = Null) => out = Null

\* ---------------------------------------------------------------- C9
\* C9: match(w) is accepts_empty_string of the regex reached by deriving for
\* every symbol of w with no early exit (the same error when a derive
\* raises); match of the empty sequence is accepts_empty_string; Null derives
\* to Null, and once a prefix of w has led to Null the answer is False.
C9_EarlyRejectionIsSound ==
    op = "match" =>
        LET r == args[1]
            w == args[2][2]
            f == DeriveAll(r, w, 1)
        IN  /\ out = IF IsErr(f) THEN f ELSE Bool(accepts_empty_string(f))
            /\ w = <<>> => out = Bool(accepts_empty_string(r))
            /\ \A sym \in Syms : derive(Null, sym) = Null
            /\ \A k \in 0..Len(w) :
                  DeriveAll(r, SubSeq(w, 1, k), 1) = Null => out = Bool(FALSE)

\* match met Null before the end of its subject, on a regex that is not Null
C9_Witness ==
    /\ op = "match"
    /\ args[1] # Null
    /\ \E k \in 1..(Len(args[2][2]) - 1) :
          DeriveAll(args[1], SubSeq(args[2][2], 1, k), 1) = Null
    /\ out = Bool(FALSE)

\* ---------------------------------------------------------------- C10
\* C10: union gathers its arguments into one set, the options of a Union
\* argument in place of the Union, Null left out, duplicates merged, and
\* returns Null for the empty set, the member of a one-member set, else the
\* Union of the set (the alphabet error when the set mixes alphabets); so
\* union(R, Null) and union(R, R) are R, also when R is a Union.
C10_UnionSimplifies ==
    (op = "union" /\ \A i \in DOMAIN args : Convertible(args[i])) =>
        LET members(a) == IF a[1] = "Union" THEN a[2] ELSE {regexify(a)} \ {Null}
            s == UNION {members(args[i]) : i \in DOMAIN args}
            mixed == Cardinality({alphabet(m) : m \in s} \ {"None"}) > 1
        IN  /\ out = IF mixed THEN Err("AlphabetMismatch")
                     ELSE IF s = {} THEN Null
                     ELSE IF Cardinality(s) = 1 THEN CHOOSE m \in s : TRUE
                     ELSE <<"Union", s>>
            /\ (Len(args) = 2 /\ IsRegex(args[1]) /\ args[2] = Null) => out = args[1]
            /\ (Len(args) = 2 /\ IsRegex(args[1]) /\ args[2] = args[1]) => out = args[1]

\* union(R, R) and union(R, Null) were called on an R that is a Union
C10_Witness ==
    /\ op = "union"
    /\ Len(args) = 2
    /\ args[1][1] = "Union"
    /\ args[2] \in {args[1], Null}
    /\ out = args[1]

\* ---------------------------------------------------------------- C11
\* C11: concat(R, Epsilon) and concat(Epsilon, R) are R, concat(R, Null) and
\* concat(Null, R) are Null (Null wins over Epsilon), and a Concat node is
\* built only when neither operand is Null or Epsilon: whatever concat
\* returns is Null, one of its operands, or the Concat of the two.
C11_ConcatIdentities ==
    (op = "concat" /\ Convertible(args[1]) /\ Convertible(args[2])) =>
        LET p == regexify(args[1])
            s == regexify(args[2])
        IN  /\ (p = Null \/ s = Null) => out = Null
            /\ (s = Epsilon /\ p # Null) => out = p
            /\ (p = Epsilon /\ s # Null) => out = s
            /\ (IsRegex(out) /\ (p \in {Null, Epsilon} \/ s \in {Null, Epsilon}))
                  => out \in {Null, p, s}
            /\ (IsRegex(out) /\ p \notin {Null, Epsilon} /\ s \notin {Null, Epsilon})
                  => out = <<"Concat", p, s>>

\* concat of a compound regex with Epsilon, on either side, returned the regex
C11_Witness ==
    /\ op = "concat"
    /\ \/ args[2] = Epsilon /\ IsRegex(args[1]) /\ args[1] \notin Atoms /\ out = args[1]
       \/ args[1] = Epsilon /\ IsRegex(args[2]) /\ args[2] \notin Atoms /\ out = args[2]

\* ---------------------------------------------------------------- C12
\* C12: star(star(v)) is star(v) for every value v star accepts, and star of
\* anything that denotes Epsilon or Null (Epsilon, Null, the empty symbol
\* sequence) is Epsilon.
C12_StarIdentities ==
    (op = "star" /\ Convertible(args[1])) =>
        /\ IsRegex(out) => star(out) = out
        /\ regexify(args[1]) \in {Epsilon, Null} => out = Epsilon

\* ---------------------------------------------------------------- C13
\* C13: for every regex R, repeat(R, 0) is Epsilon and repeat(R, 1) is R;
\* repeat(Epsilon, n) is Epsilon for every count n; repeat(Null, n) is Null
\* for every n > 0; for any other R and n >= 2 the result is Repeat(R, n).
C13_RepeatIdentities ==
    (op = "repeat" /\ IsRegex(args[1])) =>
        LET R == args[1]
            n == args[2][2]
        IN  /\ n = 0 => out = Epsilon
            /\ n = 1 => out = R
            /\ R = Epsilon => out = Epsilon
            /\ (R = Null /\ n > 0) => out = Null
            /\ (R \notin {Epsilon, Null} /\ n >= 2) => out = <<"Repeat", R, n>>

\* repeat of Epsilon with a count of two or more, or with a negative count
C13_Witness ==
    /\ op = "repeat"
    /\ args[1] = Epsilon
    /\ args[2][2] \notin {0, 1}
    /\ out = Epsilon

\* ---------------------------------------------------------------- C14
\* the symbol sequences a string can hold: text or bytes, never mixed
Literals == SeqsUpTo(TextSyms, MaxLen + 1) \cup SeqsUpTo(ByteSyms, MaxLen + 1)

\* the symbols of a regex that is symbols concatenated, left to right
RECURSIVE Spelled(_)
Spelled(r) ==
    CASE r[1] = "Symbol" -> <<r[2]>>
      [] r[1] = "Concat" -> Spelled(r[2]) \o Spelled(r[3])
      [] OTHER           -> <<>>

\* C14: for every symbol a and symbol sequence w, regexify(a w).derive(a)
\* equals regexify(w) (Epsilon when w is empty) and regexify(a w).derive(b)
\* is Null for b # a; so regexify(w).match(v) is True exactly when v = w.
C14_LiteralDerivative ==
    op \in {"derive", "match"} =>
        LET w == Spelled(args[1])
        IN  (w \in Literals /\ args[1] = regexify(<<"Str", w>>)) =>
                /\ (op = "derive" /\ w # <<>>) =>
                      out = IF args[2][2] = Head(w)
                            THEN regexify(<<"Str", Tail(w)>>)
                            ELSE Null
                /\ op = "match" => out = Bool(args[2][2] = w)

\* the regex of a string of three symbols was derived by the first of them,
\* or the regex of a string of two symbols matched that string
C14_Witness ==
    /\ op \in {"derive", "match"}
    /\ \E w \in Literals :
          /\ args[1] = regexify(<<"Str", w>>)
          /\ \/ op = "derive" /\ Len(w) = 3 /\ args[2][2] = Head(w) /\ out[1] = "Concat"
             \/ op = "match" /\ Len(w) = 2 /\ args[2][2] = w /\ out = Bool(TRUE)

\* ---------------------------------------------------------------- C15
\* what m repetitions of the symbol s are to be
RepeatOf(s, m) ==
    IF m = 0 THEN Epsilon
    ELSE IF m = 1 THEN SymbolRegex(s)
    ELSE <<"Repeat", SymbolRegex(s), m>>

\* C15: for every symbol s and count n >= 2, repeat(Regex(s), n).derive(s)
\* equals repeat(Regex(s), n - 1); after k <= n derivations by s the value is
\* repeat(Regex(s), n - k) (Regex(s) at k = n - 1, Epsilon at k = n); deriving
\* by any other symbol yields Null.
C15_RepeatCountsDown ==
    (op = "derive" /\ args[1][1] = "Repeat" /\ args[1][2][1] = "Symbol") =>
        LET s   == args[1][2][2]
            n   == args[1][3]
            sym == args[2][2]
        IN  /\ args[1] = repeat(SymbolRegex(s), n)
            /\ out = IF sym = s THEN repeat(SymbolRegex(s), n - 1) ELSE Null
            /\ \A k \in 0..n :
                  /\ repeat(SymbolRegex(s), n - k) = RepeatOf(s, n - k)
                  /\ DeriveAll(args[1], [i \in 1..k |-> s], 1) = RepeatOf(s, n - k)

\* a symbol repeated three times or more was derived by that symbol and the
\* count went down
C15_Witness ==
    /\ op = "derive"
    /\ args[1][1] = "Repeat"
    /\ args[1][3] >= 3
    /\ args[1][2] = SymbolRegex(args[2][2])
    /\ out = <<"Repeat", args[1][2], args[1][3] - 1>>

\* ---------------------------------------------------------------- C16
\* C16: regexify(w).literal is exactly w for every symbol sequence w, the
\* empty one and byte strings included: the literal of Epsilon is the empty
\* sequence, of Symbol(s) the sequence [s], of a Concat the literals of its
\* operands one after the other when both have one and none otherwise; every
\* other variant has no literal.
C16_LiteralIsString ==
    op = "literal" =>
        LET r == args[1]
            PYTHON_3000 == args[2][2]
        IN  /\ \A w \in Literals : r = regexify(<<"Str", w>>) => out = <<"Str", w>>
            /\ r = Epsilon => out = <<"Str", <<>>>>
            /\ r[1] = "Symbol" => out = <<"Str", <<r[2]>>>>
            /\ r[1] = "Concat" =>
                  LET p == literal(r[2], PYTHON_3000)
                      q == literal(r[3], PYTHON_3000)
                  IN  out = IF p[1] = "Str" /\ q[1] = "Str"
                            THEN <<"Str", p[2] \o q[2]>> ELSE Nothing
            /\ r[1] \notin {"Epsilon", "Symbol", "Concat"} => out = Nothing

\* ---------------------------------------------------------------- C17
\* C17: two values of the same variant with equal children compare equal and
\* hash alike, the options of a Union as an unordered set, so that
\* union(a, b) == union(b, a) and union(a, union(b, c)) ==
\* union(union(a, b), c) for all regexes a, b, c (both sides raise when one
\* does); values of different variants never compare equal.
C17_StructuralEquality ==
    (op = "union" /\ Len(args) = 2 /\ IsRegex(args[1]) /\ IsRegex(args[2])) =>
        LET a  == args[1]
            b  == args[2]
            ba == union(<<b, a>>)
        IN  /\ IsErr(out) <=> IsErr(ba)
            /\ IsRegex(out) => eq(out, ba) /\ hash(out) = hash(ba) /\ eq(out, out)
            /\ \A c \in (Atoms \cup {x}) \ {Nothing} :
                  LET l == union(<<a, union(<<b, c>>)>>)
                      r == union(<<out, c>>)
                  IN  /\ IsErr(l) <=> IsErr(r)
                      /\ IsRegex(l) => eq(l, r) /\ hash(l) = hash(r)
            /\ \A v, w \in {a, b, out} :
                  (IsRegex(v) /\ IsRegex(w) /\ v[1] # w[1]) => ~eq(v, w)

\* union of a Union with a regex that is not among its options
C17_Witness ==
    /\ op = "union"
    /\ Len(args) = 2
    /\ {args[1][1], args[2][1]} = {"Union", "Symbol"}
    /\ out[1] = "Union"
    /\ out \notin {args[1], args[2]}

\* ---------------------------------------------------------------- C18
\* the regexes one derive call away from a regex of S
Derivatives(S) == {d \in {derive(r, sym) : r \in S, sym \in Syms} : IsRegex(d)}

\* the regexes at most k derive calls away from a regex of S; F holds those
\* of S whose derivatives have not been taken yet
RECURSIVE Reach(_, _, _)
Reach(S, F, k) ==
    IF k = 0 \/ F = {} THEN S
    ELSE LET new == Derivatives(F) \ S
         IN  Reach(S \cup new, new, k - 1)

\* the number of symbols a regex spells out, a Star counted twice over
RECURSIVE Span(_), SumSpan(_)
SumSpan(S) ==
    IF S = {} THEN 0
    ELSE LET e == CHOOSE e \in S : TRUE IN Span(e) + SumSpan(S \ {e})
Span(r) ==
    CASE r[1] \in {"Symbol", "Any"} -> 1
      [] r[1] = "Union"  -> SumSpan(r[2])
      [] r[1] = "Concat" -> Span(r[2]) + Span(r[3])
      [] r[1] = "Star"   -> 2 * Span(r[2]) + 1
      [] r[1] = "Repeat" -> r[3] * Span(r[2])
      [] OTHER           -> 0

\* everything derive reaches from r within Span(r) + MaxDerive calls in a row
Reachable(r) == Reach({r}, {r}, Span(r) + MaxDerive)

\* C18: the regexes reachable from a regex the constructors built (here: of
\* at most MaxStart nodes), by any sequence of derive calls, are finitely
\* many: after as many calls in a row as the regex spells out symbols, and
\* MaxDerive more, no further call gives a regex that was not reached before.
C18_BoundedGrowth ==
    (Idle /\ IsRegex(x) /\ Size(x) <= MaxStart) =>
        Derivatives(Reachable(x)) \subseteq Reachable(x)

\* derivation reached a regex larger than the one it started from, and a
\* regex other than Null that derives to itself
C18_Witness ==
    /\ Idle /\ IsRegex(x) /\ Size(x) <= MaxStart
    /\ \E r \in Reachable(x) : Size(r) > Size(x)
    /\ \E r \in Reachable(x), sym \in Syms : r # Null /\ derive(r, sym) = r

\* ---------------------------------------------------------------- C19
\* C19: whenever regexify, union, concat, join, star or repeat is given
\* values regexify accepts (and any count) and returns without error, what it
\* returns is a Regex: a raw symbol or symbol sequence is always converted,
\* also by repeat(v, 1) and by star of an empty sequence.
C19_ConstructorsReturnRegex ==
    (/\ op \in {"regexify", "union", "concat", "join", "star", "repeat"}
     /\ \A i \in DOMAIN args : args[i][1] = "Arg" \/ Convertible(args[i])
     /\ ~IsErr(out))
    => IsRegex(out)

====
